---------------------------- MODULE Spec2Model ----------------------------
(***************************************************************************)
(* A model of clean_epub_css.py: the in-place EPUB transaction             *)
(* process_epub_inplace (extract, walk, pack, commit, cleanup) and the     *)
(* CSS cleaning function clean_css_content.                                *)
(*                                                                         *)
(* Spec      one container, process_epub_inplace called on it repeatedly   *)
(* MainSpec  main: a directory of items, process_epub_inplace called on    *)
(*           each .epub file in turn                                       *)
(* CleanSpec clean_css_content applied to style sheets made of             *)
(*           declarations                                                  *)
(*                                                                         *)
(* Text and file bytes are TLA+ strings, one character per byte/code unit. *)
(* The character "^" stands for a byte that is not valid UTF-8 (0xFF).     *)
(***************************************************************************)
EXTENDS Integers, Sequences, FiniteSets, TLC

(***************************************************************************)
(* Bounds of the model.                                                    *)
(***************************************************************************)
\* number of successive calls of process_epub_inplace on the same path
MaxRuns == 2
\* number of environment faults (I/O errors) injected in one call
MaxFaults == 2

(***************************************************************************)
(* Strings.                                                                *)
(***************************************************************************)
CharAt(s, i) == SubSeq(s, i, i)

UpperChars == "ABCDEFGHIJKLMNOPQRSTUVWXYZ"
LowerChars == "abcdefghijklmnopqrstuvwxyz"

\* the lower-case letter of each upper-case letter
LowerTable ==
    [c \in {CharAt(UpperChars, k) : k \in 1..Len(UpperChars)} |->
        CharAt(LowerChars, CHOOSE k \in 1..Len(UpperChars) : CharAt(UpperChars, k) = c)]

\* str.lower() on one character
LowerChar(c) == IF c \in DOMAIN LowerTable THEN LowerTable[c] ELSE c

\* str.lower()
RECURSIVE Lower(_)
Lower(s) == IF s = "" THEN "" ELSE LowerChar(CharAt(s, 1)) \o Lower(SubSeq(s, 2, Len(s)))

\* str.endswith(suffix)
EndsWith(s, suffix) ==
    /\ Len(s) >= Len(suffix)
    /\ SubSeq(s, Len(s) - Len(suffix) + 1, Len(s)) = suffix

\* the regular expression's \s on the characters the model uses
IsSpace(c) == c \in {" ", "\t", "\n", "\r", "\f"}

\* whether the characters of the pattern text w (lower case) from its k-th on
\* match s from position i + k - 1 on under re.IGNORECASE
RECURSIVE MatchesFrom(_, _, _, _)
MatchesFrom(s, i, w, k) ==
    \/ k > Len(w)
    \/ /\ LowerChar(CharAt(s, i + k - 1)) = CharAt(w, k)
       /\ MatchesFrom(s, i, w, k + 1)

\* whether the pattern text w (lower case) matches s at position i under re.IGNORECASE
MatchesAt(s, i, w) ==
    /\ i + Len(w) - 1 <= Len(s)
    /\ MatchesFrom(s, i, w, 1)

\* \s* from position i: the first position at or after i that holds no white space
RECURSIVE SkipSpace(_, _)
SkipSpace(s, i) ==
    IF i <= Len(s) /\ IsSpace(CharAt(s, i)) THEN SkipSpace(s, i + 1) ELSE i

\* the position of the first ";" at or after i, 0 when there is none
RECURSIVE FindSemicolon(_, _)
FindSemicolon(s, i) ==
    IF i > Len(s) THEN 0
    ELSE IF CharAt(s, i) = ";" THEN i
    ELSE FindSemicolon(s, i + 1)

(***************************************************************************)
(* CSS_REMOVE_PATTERN and clean_css_content.                               *)
(***************************************************************************)
\* the property names of the pattern's first alternative, in its order
CSS_REMOVE_NAMES ==
    <<"text-indent", "line-height", "font-size", "height", "font-family", "color">>

\* (name)\s*:\s*[^;]*;  at position i: the position of the match's last
\* character, 0 when it does not match.  \s*[^;]* takes every character up to
\* the first ";" whatever it is (white space, "}", a line break).
PropertyMatchEnd(s, i) ==
    LET hits == {n \in 1..Len(CSS_REMOVE_NAMES) : MatchesAt(s, i, CSS_REMOVE_NAMES[n])}
    IN IF hits = {} THEN 0
       ELSE LET n == CHOOSE n \in hits : \A m \in hits : n <= m
                j == SkipSpace(s, i + Len(CSS_REMOVE_NAMES[n]))
            IN IF j <= Len(s) /\ CharAt(s, j) = ":" THEN FindSemicolon(s, j + 1) ELSE 0

\* display\s*:\s*block\s*;  at position i: the position of the match's last
\* character, 0 when it does not match
DisplayMatchEnd(s, i) ==
    IF ~MatchesAt(s, i, "display") THEN 0
    ELSE LET j == SkipSpace(s, i + 7)
         IN IF ~(j <= Len(s) /\ CharAt(s, j) = ":") THEN 0
            ELSE LET k == SkipSpace(s, j + 1)
                 IN IF ~MatchesAt(s, k, "block") THEN 0
                    ELSE LET m == SkipSpace(s, k + 5)
                         IN IF m <= Len(s) /\ CharAt(s, m) = ";" THEN m ELSE 0

\* CSS_REMOVE_PATTERN at position i: the first alternative, then the second
CSS_REMOVE_PATTERN(s, i) ==
    LET end == PropertyMatchEnd(s, i)
    IN IF end # 0 THEN end ELSE DisplayMatchEnd(s, i)

\* re.sub('', s) from position i: leftmost matches, not overlapping
RECURSIVE SubFrom(_, _)
SubFrom(s, i) ==
    IF i > Len(s) THEN ""
    ELSE LET end == CSS_REMOVE_PATTERN(s, i)
         IN IF end # 0 THEN SubFrom(s, end + 1) ELSE CharAt(s, i) \o SubFrom(s, i + 1)

clean_css_content(css_content) == SubFrom(css_content, 1)

(***************************************************************************)
(* Text files: open(..., 'r', encoding='utf-8', errors='ignore') and       *)
(* open(..., 'w', encoding='utf-8').                                       *)
(***************************************************************************)
InvalidByte == "^"

\* f.read() of a text-mode file: bytes that are not valid UTF-8 are dropped
\* (errors='ignore'), and "\r\n" and "\r" become "\n" (universal newlines)
RECURSIVE decode(_)
decode(bytes) ==
    IF bytes = "" THEN ""
    ELSE IF CharAt(bytes, 1) = InvalidByte THEN decode(SubSeq(bytes, 2, Len(bytes)))
    ELSE IF Len(bytes) >= 2 /\ SubSeq(bytes, 1, 2) = "\r\n"
         THEN "\n" \o decode(SubSeq(bytes, 3, Len(bytes)))
    ELSE IF CharAt(bytes, 1) = "\r" THEN "\n" \o decode(SubSeq(bytes, 2, Len(bytes)))
    ELSE CharAt(bytes, 1) \o decode(SubSeq(bytes, 2, Len(bytes)))

\* f.write(text) of a text-mode file: "\n" becomes os.linesep
RECURSIVE encode(_, _)
encode(text, sep) ==
    IF text = "" THEN ""
    ELSE (IF CharAt(text, 1) = "\n" THEN sep ELSE CharAt(text, 1))
         \o encode(SubSeq(text, 2, Len(text)), sep)

\* os.linesep of the platforms the script runs on
LineSeps == {"\n", "\r\n"}

(***************************************************************************)
(* Paths.                                                                  *)
(***************************************************************************)
\* the position of the last "/" of p at or before i, 0 when there is none
RECURSIVE LastSlash(_, _)
LastSlash(p, i) ==
    IF i = 0 THEN 0 ELSE IF CharAt(p, i) = "/" THEN i ELSE LastSlash(p, i - 1)

\* os.walk's root of a file, relative to temp_dir ("" is temp_dir itself)
Dirname(p) == SubSeq(p, 1, LastSlash(p, Len(p)) - 1)

\* os.walk's file name of a file
Basename(p) == SubSeq(p, LastSlash(p, Len(p)) + 1, Len(p))

\* file.lower().endswith('.css')
IsCss(file) == EndsWith(Lower(file), ".css")

(***************************************************************************)
(* Archives.  An archive is the sequence of its entries; an entry is       *)
(* [name, isdir, data, compress].  A file on disk is [valid, entries]:     *)
(* valid says that zipfile can open it (its central directory is there).   *)
(***************************************************************************)
File(name, data, compress) ==
    [name |-> name, isdir |-> FALSE, data |-> data, compress |-> compress]

Dir(name) == [name |-> name, isdir |-> TRUE, data |-> "", compress |-> "stored"]

Archive(entries) == [valid |-> TRUE, entries |-> entries]

\* a file that is no archive, or an archive cut short while being written
Broken(entries) == [valid |-> FALSE, entries |-> entries]

Names(entries) == {entries[k].name : k \in 1..Len(entries)}

\* the content the archive holds under a name (its last entry of that name)
DataOf(entries, name) ==
    LET k == CHOOSE k \in 1..Len(entries) :
                 /\ entries[k].name = name
                 /\ \A m \in (k + 1)..Len(entries) : entries[m].name # name
    IN entries[k].data

(***************************************************************************)
(* The scratch tree: its regular files, a sequence of [name, data] in the  *)
(* order the directory listings give them, and its directories.            *)
(***************************************************************************)
\* a file is created at the end of the listing, or overwritten in place
WriteFile(files, name, data) ==
    IF \E k \in 1..Len(files) : files[k].name = name
    THEN [k \in 1..Len(files) |->
             IF files[k].name = name THEN [name |-> name, data |-> data] ELSE files[k]]
    ELSE Append(files, [name |-> name, data |-> data])

\* zip_ref.extractall(temp_dir) of the first n entries: the files
RECURSIVE ExtractFiles(_, _)
ExtractFiles(entries, n) ==
    IF n = 0 THEN <<>>
    ELSE IF entries[n].isdir THEN ExtractFiles(entries, n - 1)
    ELSE WriteFile(ExtractFiles(entries, n - 1), entries[n].name, entries[n].data)

\* zip_ref.extractall(temp_dir) of the first n entries: the directories
ExtractDirs(entries, n) ==
    {entries[k].name : k \in {m \in 1..n : entries[m].isdir}}
    \cup {Dirname(entries[k].name) \o "/" :
             k \in {m \in 1..n : ~entries[m].isdir /\ Dirname(entries[m].name) # ""}}

\* the directories that hold files, in listing order
RECURSIVE DirOrder(_, _)
DirOrder(files, n) ==
    IF n = 0 THEN <<>>
    ELSE LET before == DirOrder(files, n - 1)
             d == Dirname(files[n].name)
         IN IF d = "" \/ \E k \in 1..Len(before) : before[k] = d
            THEN before ELSE Append(before, d)

FilesIn(files, d) == SelectSeq(files, LAMBDA f : Dirname(f.name) = d)

RECURSIVE WalkDirs(_, _, _)
WalkDirs(files, dirs, n) ==
    IF n > Len(dirs) THEN <<>> ELSE FilesIn(files, dirs[n]) \o WalkDirs(files, dirs, n + 1)

\* os.walk(temp_dir), flattened to the files it yields: top-down, the files
\* of temp_dir first, then those of each directory below it
Walk(files) == FilesIn(files, "") \o WalkDirs(files, DirOrder(files, Len(files)), 1)

\* the second loop's filter: 'mimetype' is removed from the files of temp_dir
PackWalk(files) ==
    SelectSeq(Walk(files), LAMBDA f : ~(Dirname(f.name) = "" /\ Basename(f.name) = "mimetype"))

\* mutant: mimetype gets no special treatment
PackEntries_WalkOnly(files) ==
    [k \in 1..Len(Walk(files)) |-> File(Walk(files)[k].name, Walk(files)[k].data, "deflated")]

\* what step 5 writes into the new archive, in order: mimetype first and
\* stored when os.path.exists says it is there, then every walked file deflated
PackEntries(files) ==
    (IF \E k \in 1..Len(files) : files[k].name = "mimetype"
     THEN <<File("mimetype", DataOf(files, "mimetype"), "stored")>>
     ELSE <<>>)
    \o [k \in 1..Len(PackWalk(files)) |->
           File(PackWalk(files)[k].name, PackWalk(files)[k].data, "deflated")]

(***************************************************************************)
(* The containers the model runs on.                                       *)
(***************************************************************************)
Mimetype == File("mimetype", "application/epub+zip", "stored")
Opf == File("content.opf", "<package/>", "deflated")

\* contents of the style sheets: clean, the spec's scenario, clean with a
\* byte that is not UTF-8, upper case with CRLF line ends, and one that a
\* second cleaning changes again
CssContents ==
    { "p{margin:0;}",
      "p{color: red; text-indent: 2em;}",
      "^p{margin:0;}",
      "p{\r\nHEIGHT:1px;\r\n}",
      "colcolor:a;or:b;" }

Containers ==
    {<<Opf, File("notes.css.txt", "color:red;", "deflated")>>}
    \cup {<<Mimetype, Opf, File("style/a.css", a, "deflated")>> : a \in CssContents}
    \cup {<<Opf, File("OEBPS/mimetype", "x", "deflated"), File("B.CSS", a, "deflated")>> :
             a \in CssContents}
    \cup {<<Opf, File("style/a.css", c[1], "deflated"),
            File("mimetype", "application/epub+zip", "deflated"),
            Dir("images/"), File("style/b.css", c[2], "stored")>> :
             c \in CssContents \X {"p{margin:0;}", "p{color: red; text-indent: 2em;}"}}

(***************************************************************************)
(* The state: the files on disk, the local variables of                    *)
(* process_epub_inplace, its position, and what the run has done so far.   *)
(***************************************************************************)
VARIABLES
    source,                 \* the file at epub_path
    tmp,                    \* the file at epub_path + ".<uuid>.tmpzip": [exists, file]
    scratch_exists,         \* whether the directory mkdtemp made is on disk
    scratch_files,          \* its regular files
    scratch_dirs,           \* its directories
    linesep,                \* os.linesep
    pc,                     \* the position in process_epub_inplace
    temp_dir,               \* local: not None
    temp_output_epub_path,  \* local: not None
    css_files_found,        \* local
    modified,               \* local
    walk_i,                 \* the position of the first loop in Walk(scratch_files)
    result,                 \* "none", or the value returned: "True", "False"
    run,                    \* the number of calls made
    faults,                 \* the number of faults injected in this call
    hist,                   \* what the runs did (read by the properties only)
    directory,              \* main: the entries of input_directory, in listing order
    main_pc,                \* main: its position
    all_items,              \* main: local
    item_i,                 \* main: the position of its loop in all_items
    processed_count,        \* main: local
    error_count,            \* main: local
    found_epub,             \* main: local
    batch,                  \* what main did (read by the properties only)
    css_decls,              \* the declarations a style sheet is made of
    css_content,            \* clean_css_content: its argument
    cleaned_css             \* clean_css_content: <<>>, or <<the value returned>>

main_vars == <<directory, main_pc, all_items, item_i, processed_count, error_count,
               found_epub, batch>>
clean_vars == <<css_decls, css_content, cleaned_css>>

\* what process_epub_inplace neither reads into nor writes
outside == <<linesep, main_vars, clean_vars>>

vars == <<source, tmp, scratch_exists, scratch_files, scratch_dirs, linesep, pc,
          temp_dir, temp_output_epub_path, css_files_found, modified, walk_i,
          result, run, faults, hist, main_vars, clean_vars>>

disk == <<source, tmp, scratch_exists, scratch_files, scratch_dirs>>
locals == <<temp_dir, temp_output_epub_path, css_files_found, modified, walk_i>>

NoFile == [exists |-> FALSE, file |-> Broken(<<>>)]

NoHist ==
    [ orig |-> Broken(<<>>),     \* source when the call began
      extracted |-> <<>>,        \* the scratch files as extractall left them
      reads |-> {},              \* matched files the walk opened for reading
      read_failed |-> {},        \* matched files whose read raised
      written |-> {},            \* matched files the walk rewrote
      write_failed |-> {},       \* matched files whose write raised
      opened_w |-> {},           \* matched files the walk opened for writing
      walked |-> FALSE,          \* the first loop ran to its end
      tmp_created |-> FALSE,     \* the temporary output was created
      packed |-> FALSE,          \* step 5 ended without an exception
      pack_failed |-> FALSE,     \* step 5 raised
      caught |-> FALSE,          \* the outer except Exception block ran
      moved |-> "no",            \* shutil.move: "no", "called", "done"
      rmtree_failed |-> FALSE,   \* shutil.rmtree raised OSError
      remove_failed |-> FALSE,   \* the last os.remove of the temporary output raised
      prev |-> Broken(<<>>),     \* source when the previous call began
      prev_clean |-> FALSE,      \* the previous call ran without a fault
      prev_result |-> "none" ]   \* what the previous call returned

NoBatch ==
    [ attempts |-> <<>>,         \* for each item of all_items, the calls made on it
      results |-> <<>>,          \* what the calls returned, in order
      started |-> 0,             \* calls of process_epub_inplace begun
      finished |-> 0 ]           \* calls of process_epub_inplace that returned

\* before process_epub_inplace is called
NotCalled ==
    /\ tmp = NoFile
    /\ scratch_exists = FALSE
    /\ scratch_files = <<>>
    /\ scratch_dirs = {}
    /\ pc = "idle"
    /\ temp_dir = FALSE
    /\ temp_output_epub_path = FALSE
    /\ css_files_found = FALSE
    /\ modified = FALSE
    /\ walk_i = 0
    /\ result = "none"
    /\ run = 0
    /\ faults = 0
    /\ hist = NoHist

\* main is not running
NoMain ==
    /\ directory = <<>>
    /\ main_pc = "none"
    /\ all_items = <<>>
    /\ item_i = 0
    /\ processed_count = 0
    /\ error_count = 0
    /\ found_epub = FALSE
    /\ batch = NoBatch

\* clean_css_content is not called on its own
NoClean ==
    /\ css_decls = <<>>
    /\ css_content = ""
    /\ cleaned_css = <<>>

Init ==
    /\ source \in {Archive(c) : c \in Containers} \cup {Broken(<<>>)}
    /\ linesep \in LineSeps
    /\ NotCalled
    /\ NoMain
    /\ NoClean

\* an environment fault may be injected
MayFail == faults < MaxFaults
Fault == faults' = faults + 1

\* os.remove of the temporary output may raise: a fault, or the condition
\* that made an earlier os.remove of it raise is still there
RemoveMayFail == MayFail \/ hist.remove_failed
RemoveFault == faults' = IF hist.remove_failed THEN faults ELSE faults + 1

(***************************************************************************)
(* main's call of process_epub_inplace(item_path); a later run of the      *)
(* script calls it on the same path again.                                 *)
(***************************************************************************)
Call ==
    /\ pc \in {"idle", "done"}
    /\ run < MaxRuns
    /\ run' = run + 1
    /\ pc' = "mkdtemp"
    /\ temp_dir' = FALSE
    /\ temp_output_epub_path' = FALSE
    /\ css_files_found' = FALSE
    /\ modified' = FALSE
    /\ walk_i' = 0
    /\ result' = "none"
    /\ faults' = 0
    \* mkdtemp and uuid4 give this call names no earlier call used
    /\ tmp' = NoFile
    /\ scratch_exists' = FALSE
    /\ scratch_files' = <<>>
    /\ scratch_dirs' = {}
    /\ hist' = [NoHist EXCEPT !.orig = source, !.prev = hist.orig,
                              !.prev_clean = (run > 0 /\ faults = 0), !.prev_result = result]
    /\ UNCHANGED <<source, outside>>

(***************************************************************************)
(* 1. temp_dir = tempfile.mkdtemp()                                        *)
(***************************************************************************)
Mkdtemp ==
    /\ pc = "mkdtemp"
    /\ temp_dir' = TRUE
    /\ scratch_exists' = TRUE
    /\ pc' = "extract"
    /\ UNCHANGED <<source, tmp, scratch_files, scratch_dirs, outside,
                   temp_output_epub_path, css_files_found, modified, walk_i,
                   result, run, faults, hist>>

MkdtempFails ==
    /\ pc = "mkdtemp"
    /\ MayFail /\ Fault
    /\ pc' = "except"
    /\ UNCHANGED <<disk, locals, outside, result, run, hist>>

(***************************************************************************)
(* 2. with zipfile.ZipFile(epub_path, 'r') as zip_ref:                     *)
(*        zip_ref.extractall(temp_dir)                                     *)
(***************************************************************************)
Extract ==
    /\ pc = "extract"
    /\ source.valid
    /\ scratch_files' = ExtractFiles(source.entries, Len(source.entries))
    /\ scratch_dirs' = ExtractDirs(source.entries, Len(source.entries))
    /\ hist' = [hist EXCEPT !.extracted = scratch_files']
    /\ css_files_found' = FALSE
    /\ modified' = FALSE
    /\ walk_i' = 1
    /\ pc' = "walk"
    /\ UNCHANGED <<source, tmp, scratch_exists, outside, temp_dir,
                   temp_output_epub_path, result, run, faults>>

\* mutant: the BadZipFile handler returns True
ExtractBadZip_ReturnsTrue ==
    /\ pc = "extract"
    /\ ~source.valid
    /\ result' = "True"
    /\ pc' = "finally"
    /\ UNCHANGED <<disk, locals, outside, run, faults, hist>>

\* except zipfile.BadZipFile: return False
ExtractBadZip ==
    /\ pc = "extract"
    /\ ~source.valid
    /\ result' = "False"
    /\ pc' = "finally"
    /\ UNCHANGED <<disk, locals, outside, run, faults, hist>>

\* except Exception: return False, after n entries were extracted
ExtractFails ==
    /\ pc = "extract"
    /\ source.valid
    /\ MayFail /\ Fault
    /\ \E n \in 0..(Len(source.entries) - 1) :
          /\ scratch_files' = ExtractFiles(source.entries, n)
          /\ scratch_dirs' = ExtractDirs(source.entries, n)
    /\ result' = "False"
    /\ pc' = "finally"
    /\ UNCHANGED <<source, tmp, scratch_exists, locals, outside, run, hist>>

(***************************************************************************)
(* 3. for root, _, files in os.walk(temp_dir): for file in files: ...      *)
(***************************************************************************)
\* the file the first loop is at
Current == Walk(scratch_files)[walk_i]
InWalk == pc = "walk" /\ walk_i <= Len(Walk(scratch_files))

\* what a write that raises leaves in the file: what was there (open
\* raised), nothing, or the first part of the text (write or close raised)
FailedWrites(old, new) == {old, "", SubSeq(new, 1, Len(new) \div 2)}

\* re.sub with count=1: only the leftmost match is removed
RECURSIVE SubOnceFrom(_, _)
SubOnceFrom(s, i) ==
    IF i > Len(s) THEN ""
    ELSE LET end == CSS_REMOVE_PATTERN(s, i)
         IN IF end # 0 THEN SubSeq(s, end + 1, Len(s)) ELSE CharAt(s, i) \o SubOnceFrom(s, i + 1)

\* mutant: the cleaning stops after the first declaration it removes
cleaned_content_SubOnce(original_content) == SubOnceFrom(original_content, 1)

\* cleaned_content = clean_css_content(original_content)
cleaned_content(original_content) == clean_css_content(original_content)

\* mutant: the text read is written back, not the cleaned text
written_bytes_Original(original_content, cleaned, sep) == encode(original_content, sep)

\* with open(css_file_path, 'w', encoding='utf-8') as f: f.write(cleaned_content)
written_bytes(original_content, cleaned, sep) == encode(cleaned, sep)

\* a file the predicate does not match
WalkOther ==
    /\ InWalk
    /\ ~IsCss(Basename(Current.name))
    /\ walk_i' = walk_i + 1
    /\ UNCHANGED <<disk, outside, pc, temp_dir, temp_output_epub_path,
                   css_files_found, modified, result, run, faults, hist>>

\* mutant: the file is written back whether or not the cleaning changed it
WalkCss_AlwaysWrites ==
    /\ InWalk
    /\ IsCss(Basename(Current.name))
    /\ css_files_found' = TRUE
    /\ LET original_content == decode(Current.data)
           cleaned == cleaned_content(original_content)
       IN /\ scratch_files' = WriteFile(scratch_files, Current.name,
                                        written_bytes(original_content, cleaned, linesep))
          /\ modified' = TRUE
          /\ hist' = [hist EXCEPT !.reads = @ \cup {Current.name},
                                  !.opened_w = @ \cup {Current.name},
                                  !.written = @ \cup {Current.name}]
    /\ walk_i' = walk_i + 1
    /\ UNCHANGED <<source, tmp, scratch_exists, scratch_dirs, outside, pc, temp_dir,
                   temp_output_epub_path, result, run, faults>>

\* a matched file, read and, when the cleaning changes it, written back
WalkCss ==
    /\ InWalk
    /\ IsCss(Basename(Current.name))
    /\ css_files_found' = TRUE
    /\ LET original_content == decode(Current.data)
           cleaned == cleaned_content(original_content)
       IN IF cleaned # original_content
          THEN /\ scratch_files' = WriteFile(scratch_files, Current.name,
                                             written_bytes(original_content, cleaned, linesep))
               /\ modified' = TRUE
               /\ hist' = [hist EXCEPT !.reads = @ \cup {Current.name},
                                       !.opened_w = @ \cup {Current.name},
                                       !.written = @ \cup {Current.name}]
          ELSE /\ hist' = [hist EXCEPT !.reads = @ \cup {Current.name}]
               /\ UNCHANGED <<scratch_files, modified>>
    /\ walk_i' = walk_i + 1
    /\ UNCHANGED <<source, tmp, scratch_exists, scratch_dirs, outside, pc, temp_dir,
                   temp_output_epub_path, result, run, faults>>

\* mutant: a read that raises ends the loop (break for continue)
WalkReadFails_Break ==
    /\ InWalk
    /\ IsCss(Basename(Current.name))
    /\ MayFail /\ Fault
    /\ css_files_found' = TRUE
    /\ hist' = [hist EXCEPT !.reads = @ \cup {Current.name},
                            !.read_failed = @ \cup {Current.name}]
    /\ walk_i' = Len(Walk(scratch_files)) + 1
    /\ UNCHANGED <<disk, outside, pc, temp_dir, temp_output_epub_path, modified,
                   result, run>>

\* the read raises: except Exception: continue
WalkReadFails ==
    /\ InWalk
    /\ IsCss(Basename(Current.name))
    /\ MayFail /\ Fault
    /\ css_files_found' = TRUE
    /\ hist' = [hist EXCEPT !.reads = @ \cup {Current.name},
                            !.read_failed = @ \cup {Current.name}]
    /\ walk_i' = walk_i + 1
    /\ UNCHANGED <<disk, outside, pc, temp_dir, temp_output_epub_path, modified,
                   result, run>>

\* mutant: modified is set although the write raised
WalkWriteFails_SetsModified ==
    /\ InWalk
    /\ IsCss(Basename(Current.name))
    /\ cleaned_content(decode(Current.data)) # decode(Current.data)
    /\ MayFail /\ Fault
    /\ css_files_found' = TRUE
    /\ modified' = TRUE
    /\ \E left \in FailedWrites(Current.data,
                               written_bytes(decode(Current.data),
                                             cleaned_content(decode(Current.data)), linesep)) :
          scratch_files' = WriteFile(scratch_files, Current.name, left)
    /\ hist' = [hist EXCEPT !.reads = @ \cup {Current.name},
                            !.opened_w = @ \cup {Current.name},
                            !.write_failed = @ \cup {Current.name}]
    /\ walk_i' = walk_i + 1
    /\ UNCHANGED <<source, tmp, scratch_exists, scratch_dirs, outside, pc, temp_dir,
                   temp_output_epub_path, result, run>>

\* the write raises: except Exception: a warning, modified is not set
WalkWriteFails ==
    /\ InWalk
    /\ IsCss(Basename(Current.name))
    /\ cleaned_content(decode(Current.data)) # decode(Current.data)
    /\ MayFail /\ Fault
    /\ css_files_found' = TRUE
    /\ \E left \in FailedWrites(Current.data,
                               written_bytes(decode(Current.data),
                                             cleaned_content(decode(Current.data)), linesep)) :
          scratch_files' = WriteFile(scratch_files, Current.name, left)
    /\ hist' = [hist EXCEPT !.reads = @ \cup {Current.name},
                            !.opened_w = @ \cup {Current.name},
                            !.write_failed = @ \cup {Current.name}]
    /\ walk_i' = walk_i + 1
    /\ UNCHANGED <<source, tmp, scratch_exists, scratch_dirs, outside, pc, temp_dir,
                   temp_output_epub_path, modified, result, run>>

\* clean_css_content (or any statement of the loop outside the two inner try
\* blocks) raises: the outer except Exception gets it
WalkRaises ==
    /\ InWalk
    /\ IsCss(Basename(Current.name))
    /\ MayFail /\ Fault
    /\ css_files_found' = TRUE
    /\ hist' = [hist EXCEPT !.reads = @ \cup {Current.name}]
    /\ pc' = "except"
    /\ UNCHANGED <<disk, outside, temp_dir, temp_output_epub_path, modified, walk_i,
                   result, run>>

\* mutant: the second early return (if not modified) is missing
WalkEnd_NoModifiedCheck ==
    /\ pc = "walk"
    /\ walk_i > Len(Walk(scratch_files))
    /\ hist' = [hist EXCEPT !.walked = TRUE]
    /\ IF ~css_files_found
       THEN /\ result' = "True"
            /\ pc' = "finally"
            /\ UNCHANGED temp_output_epub_path
       ELSE /\ temp_output_epub_path' = TRUE
            /\ pc' = "pack"
            /\ UNCHANGED result
    /\ UNCHANGED <<disk, outside, temp_dir, css_files_found, modified, walk_i,
                   run, faults>>

\* after the loop: the two early returns, or step 4's temporary name
WalkEnd ==
    /\ pc = "walk"
    /\ walk_i > Len(Walk(scratch_files))
    /\ hist' = [hist EXCEPT !.walked = TRUE]
    /\ IF ~css_files_found \/ ~modified
       THEN /\ result' = "True"
            /\ pc' = "finally"
            /\ UNCHANGED temp_output_epub_path
       ELSE /\ temp_output_epub_path' = TRUE
            /\ pc' = "pack"
            /\ UNCHANGED result
    /\ UNCHANGED <<disk, outside, temp_dir, css_files_found, modified, walk_i,
                   run, faults>>

(***************************************************************************)
(* 5. with zipfile.ZipFile(temp_output_epub_path, 'w', ZIP_DEFLATED) ...   *)
(***************************************************************************)
Pack ==
    /\ pc = "pack"
    /\ tmp' = [exists |-> TRUE, file |-> Archive(PackEntries(scratch_files))]
    /\ hist' = [hist EXCEPT !.tmp_created = TRUE, !.packed = TRUE]
    /\ pc' = "commit"
    /\ UNCHANGED <<source, scratch_exists, scratch_files, scratch_dirs, locals,
                   outside, result, run, faults>>

\* mutant: the exception of step 5 is swallowed and step 6 goes on
PackFails_GoesOn ==
    /\ pc = "pack"
    /\ MayFail /\ Fault
    /\ \E n \in 0..Len(PackEntries(scratch_files)) :
          tmp' = [exists |-> TRUE,
                  file |-> Broken(SubSeq(PackEntries(scratch_files), 1, n))]
    /\ hist' = [hist EXCEPT !.tmp_created = TRUE, !.pack_failed = TRUE]
    /\ pc' = "commit"
    /\ UNCHANGED <<source, scratch_exists, scratch_files, scratch_dirs, locals,
                   outside, result, run>>

\* an exception in step 5: the file could not be created, or n entries
\* were written before a write or the close raised
PackFails ==
    /\ pc = "pack"
    /\ MayFail /\ Fault
    /\ \/ /\ UNCHANGED tmp
          /\ hist' = [hist EXCEPT !.pack_failed = TRUE]
       \/ /\ \E n \in 0..Len(PackEntries(scratch_files)) :
                tmp' = [exists |-> TRUE,
                        file |-> Broken(SubSeq(PackEntries(scratch_files), 1, n))]
          /\ hist' = [hist EXCEPT !.tmp_created = TRUE, !.pack_failed = TRUE]
    /\ pc' = "pack_except"
    /\ UNCHANGED <<source, scratch_exists, scratch_files, scratch_dirs, locals,
                   outside, result, run>>

\* the except blocks of steps 5 and 6:
\*     if temp_output_epub_path and os.path.exists(temp_output_epub_path):
\*         os.remove(temp_output_epub_path)
\*     return False
StepExcept ==
    /\ pc \in {"pack_except", "commit_except"}
    /\ tmp' = NoFile
    /\ hist' = [hist EXCEPT !.remove_failed = FALSE]
    /\ result' = "False"
    /\ pc' = "finally"
    /\ UNCHANGED <<source, scratch_exists, scratch_files, scratch_dirs, locals,
                   outside, run, faults>>

\* os.remove raises inside the except block: the outer except gets it
StepExceptRemoveFails ==
    /\ pc \in {"pack_except", "commit_except"}
    /\ temp_output_epub_path /\ tmp.exists
    /\ RemoveMayFail /\ RemoveFault
    /\ hist' = [hist EXCEPT !.remove_failed = TRUE]
    /\ pc' = "except"
    /\ UNCHANGED <<disk, locals, outside, result, run>>

(***************************************************************************)
(* 6. shutil.move(temp_output_epub_path, epub_path): os.rename, and when   *)
(*    os.rename raises OSError, copy2 onto epub_path and os.unlink of the  *)
(*    temporary file.                                                      *)
(***************************************************************************)
\* os.rename replaced the file, or the copy and the unlink both went through
Commit ==
    /\ pc = "commit"
    /\ source' = tmp.file
    /\ tmp' = NoFile
    /\ temp_output_epub_path' = FALSE
    /\ hist' = [hist EXCEPT !.moved = "done"]
    /\ result' = "True"
    /\ pc' = "finally"
    /\ UNCHANGED <<scratch_exists, scratch_files, scratch_dirs, outside, temp_dir,
                   css_files_found, modified, walk_i, run, faults>>

\* what a copy onto epub_path that raises leaves there: what was there (the
\* file could not be opened), or the first n entries' bytes
FailedCopies(old, new) ==
    {old} \cup {Broken(SubSeq(new.entries, 1, n)) : n \in 0..(Len(new.entries) - 1)}

\* os.rename raised and so did the copy
CommitCopyFails ==
    /\ pc = "commit"
    /\ MayFail /\ Fault
    /\ source' \in FailedCopies(source, tmp.file)
    /\ hist' = [hist EXCEPT !.moved = "called"]
    /\ pc' = "commit_except"
    /\ UNCHANGED <<tmp, scratch_exists, scratch_files, scratch_dirs, locals, outside,
                   result, run>>

\* os.rename raised, the copy went through and os.unlink of the temporary
\* file raised
CommitUnlinkFails ==
    /\ pc = "commit"
    /\ MayFail /\ Fault
    /\ source' = tmp.file
    /\ hist' = [hist EXCEPT !.moved = "called", !.remove_failed = TRUE]
    /\ pc' = "commit_except"
    /\ UNCHANGED <<tmp, scratch_exists, scratch_files, scratch_dirs, locals, outside,
                   result, run>>

(***************************************************************************)
(* except Exception as e: ... return False                                 *)
(***************************************************************************)
\* mutant: the outer handler raises the exception again
Except_Reraise ==
    /\ pc = "except"
    /\ tmp' = NoFile
    /\ hist' = [hist EXCEPT !.remove_failed = FALSE, !.caught = TRUE]
    /\ result' = "raised"
    /\ pc' = "finally"
    /\ UNCHANGED <<source, scratch_exists, scratch_files, scratch_dirs, locals,
                   outside, run, faults>>

\* try: os.remove(temp_output_epub_path) / except OSError: pass
Except ==
    /\ pc = "except"
    /\ \/ /\ tmp' = NoFile
          /\ hist' = [hist EXCEPT !.remove_failed = FALSE, !.caught = TRUE]
       \/ /\ temp_output_epub_path /\ tmp.exists
          /\ hist.remove_failed
          /\ hist' = [hist EXCEPT !.caught = TRUE]
          /\ UNCHANGED tmp
    /\ result' = "False"
    /\ pc' = "finally"
    /\ UNCHANGED <<source, scratch_exists, scratch_files, scratch_dirs, locals,
                   outside, run, faults>>

(***************************************************************************)
(* finally:                                                                *)
(***************************************************************************)
\* mutant: the finally block does not remove the scratch directory
FinallyRmtree_Skipped ==
    /\ pc = "finally"
    /\ pc' = "finally_remove"
    /\ UNCHANGED <<disk, locals, outside, result, run, faults, hist>>

\* if temp_dir and os.path.exists(temp_dir): shutil.rmtree(temp_dir)
FinallyRmtree ==
    /\ pc = "finally"
    /\ scratch_exists' = FALSE
    /\ scratch_files' = <<>>
    /\ scratch_dirs' = {}
    /\ pc' = "finally_remove"
    /\ UNCHANGED <<source, tmp, locals, outside, result, run, faults, hist>>

\* except OSError: a warning, the directory stays
FinallyRmtreeFails ==
    /\ pc = "finally"
    /\ temp_dir /\ scratch_exists
    /\ MayFail /\ Fault
    /\ hist' = [hist EXCEPT !.rmtree_failed = TRUE]
    /\ pc' = "finally_remove"
    /\ UNCHANGED <<disk, locals, outside, result, run>>

\* if temp_output_epub_path and os.path.exists(temp_output_epub_path):
\*     os.remove(temp_output_epub_path)
FinallyRemove ==
    /\ pc = "finally_remove"
    /\ tmp' = IF temp_output_epub_path THEN NoFile ELSE tmp
    /\ hist' = [hist EXCEPT !.remove_failed = FALSE]
    /\ pc' = "done"
    /\ UNCHANGED <<source, scratch_exists, scratch_files, scratch_dirs, locals,
                   outside, result, run, faults>>

\* except OSError: pass
FinallyRemoveFails ==
    /\ pc = "finally_remove"
    /\ temp_output_epub_path /\ tmp.exists
    /\ RemoveMayFail /\ RemoveFault
    /\ hist' = [hist EXCEPT !.remove_failed = TRUE]
    /\ pc' = "done"
    /\ UNCHANGED <<disk, locals, outside, result, run>>

Next ==
    \/ Call
    \/ Mkdtemp \/ MkdtempFails
    \/ Extract \/ ExtractBadZip \/ ExtractFails
    \/ WalkOther \/ WalkCss \/ WalkReadFails \/ WalkWriteFails \/ WalkRaises \/ WalkEnd
    \/ Pack \/ PackFails \/ StepExcept \/ StepExceptRemoveFails
    \/ Commit \/ CommitCopyFails \/ CommitUnlinkFails
    \/ Except
    \/ FinallyRmtree \/ FinallyRmtreeFails \/ FinallyRemove \/ FinallyRemoveFails

Spec == Init /\ [][Next]_vars

(***************************************************************************)
(* main: the .epub files of the script's directory, one after another.     *)
(***************************************************************************)
\* the most entries the directory holds
MaxItems == 3

\* os.path.basename(sys.argv[0])
script_filename == "clean_epub_css.py"

\* an entry of the directory: a regular file (isfile) with its content, or a
\* subdirectory
Item(name, isfile, file) == [name |-> name, isfile |-> isfile, file |-> file]

\* what the directory may hold: the script, a container with a style sheet to
\* clean, a file named .EPUB that is no archive, a subdirectory named .epub,
\* and a container with nothing to clean
Items ==
    { Item(script_filename, TRUE, Broken(<<>>)),
      Item("a.epub", TRUE,
           Archive(<<Mimetype, Opf,
                     File("style/a.css", "p{color: red; text-indent: 2em;}", "deflated")>>)),
      Item("B.EPUB", TRUE, Broken(<<>>)),
      Item("c.epub", FALSE, Broken(<<>>)),
      Item("d.epub", TRUE, Archive(<<Opf, File("s.css", "p{margin:0;}", "deflated")>>)) }

\* the directories: no two entries of one directory have the same name
Listings ==
    {d \in UNION {[1..n -> Items] : n \in 0..MaxItems} :
        \A j, k \in 1..Len(d) : d[j].name = d[k].name => j = k}

MainInit ==
    /\ directory \in Listings
    /\ main_pc = "start"
    /\ all_items = <<>>
    /\ item_i = 0
    /\ processed_count = 0
    /\ error_count = 0
    /\ found_epub = FALSE
    /\ batch = NoBatch
    /\ source = Broken(<<>>)
    /\ linesep \in LineSeps
    /\ NotCalled
    /\ NoClean

\* all_items = os.listdir(input_directory)
MainListdir ==
    /\ main_pc = "start"
    /\ all_items' = [k \in 1..Len(directory) |-> directory[k].name]
    /\ item_i' = 1
    /\ batch' = [batch EXCEPT !.attempts = [k \in 1..Len(directory) |-> 0]]
    /\ main_pc' = "loop"
    /\ UNCHANGED <<disk, locals, linesep, pc, result, run, faults, hist, directory,
                   processed_count, error_count, found_epub, clean_vars>>

\* except OSError: return
MainListdirFails ==
    /\ main_pc = "start"
    /\ main_pc' = "exit"
    /\ UNCHANGED <<disk, locals, linesep, pc, result, run, faults, hist, directory,
                   all_items, item_i, processed_count, error_count, found_epub, batch,
                   clean_vars>>

\* the loop is at an item
AtItem == main_pc = "loop" /\ item_i <= Len(all_items)

\* the item is not the script, is a regular file and is named .epub
Discovered(k) ==
    /\ all_items[k] # script_filename
    /\ directory[k].isfile
    /\ EndsWith(Lower(all_items[k]), ".epub")

\* continue, or the if is not taken
MainSkip ==
    /\ AtItem
    /\ ~Discovered(item_i)
    /\ item_i' = item_i + 1
    /\ UNCHANGED <<disk, locals, linesep, pc, result, run, faults, hist, directory,
                   main_pc, all_items, processed_count, error_count, found_epub, batch,
                   clean_vars>>

\* found_epub = True; result = process_epub_inplace(item_path): the call begins
MainCall ==
    /\ AtItem
    /\ Discovered(item_i)
    /\ found_epub' = TRUE
    /\ main_pc' = "call"
    /\ batch' = [batch EXCEPT !.attempts[item_i] = @ + 1, !.started = @ + 1]
    /\ source' = directory[item_i].file
    /\ run' = run + 1
    /\ pc' = "mkdtemp"
    /\ temp_dir' = FALSE
    /\ temp_output_epub_path' = FALSE
    /\ css_files_found' = FALSE
    /\ modified' = FALSE
    /\ walk_i' = 0
    /\ result' = "none"
    /\ faults' = 0
    /\ tmp' = NoFile
    /\ scratch_exists' = FALSE
    /\ scratch_files' = <<>>
    /\ scratch_dirs' = {}
    /\ hist' = [NoHist EXCEPT !.orig = source']
    /\ UNCHANGED <<linesep, directory, all_items, item_i, processed_count, error_count,
                   clean_vars>>

\* mutant: the loop ends at the first call that returns False
MainReturn_BreakOnFailure ==
    /\ main_pc = "call"
    /\ pc = "done"
    /\ IF result = "True"
       THEN /\ processed_count' = processed_count + 1
            /\ item_i' = item_i + 1
            /\ UNCHANGED error_count
       ELSE /\ error_count' = error_count + 1
            /\ item_i' = Len(all_items) + 1
            /\ UNCHANGED processed_count
    /\ directory' = [directory EXCEPT ![item_i].file = source]
    /\ batch' = [batch EXCEPT !.results = Append(@, result), !.finished = @ + 1]
    /\ main_pc' = "loop"
    /\ pc' = "idle"
    /\ UNCHANGED <<disk, locals, linesep, result, run, faults, hist, all_items,
                   found_epub, clean_vars>>

\* the call has returned: if result: processed_count += 1 / else: error_count += 1
MainReturn ==
    /\ main_pc = "call"
    /\ pc = "done"
    /\ IF result = "True"
       THEN processed_count' = processed_count + 1 /\ UNCHANGED error_count
       ELSE error_count' = error_count + 1 /\ UNCHANGED processed_count
    /\ directory' = [directory EXCEPT ![item_i].file = source]
    /\ item_i' = item_i + 1
    /\ batch' = [batch EXCEPT !.results = Append(@, result), !.finished = @ + 1]
    /\ main_pc' = "loop"
    /\ pc' = "idle"
    /\ UNCHANGED <<disk, locals, linesep, result, run, faults, hist, all_items,
                   found_epub, clean_vars>>

\* after the loop: the report
MainReport ==
    /\ main_pc = "loop"
    /\ item_i > Len(all_items)
    /\ main_pc' = "exit"
    /\ UNCHANGED <<disk, locals, linesep, pc, result, run, faults, hist, directory,
                   all_items, item_i, processed_count, error_count, found_epub, batch,
                   clean_vars>>

MainNext ==
    \/ MainListdir \/ MainListdirFails \/ MainSkip \/ MainCall \/ MainReturn \/ MainReport
    \/ Mkdtemp \/ MkdtempFails
    \/ Extract \/ ExtractBadZip \/ ExtractFails
    \/ WalkOther \/ WalkCss \/ WalkReadFails \/ WalkWriteFails \/ WalkRaises \/ WalkEnd
    \/ Pack \/ PackFails \/ StepExcept \/ StepExceptRemoveFails
    \/ Commit \/ CommitCopyFails \/ CommitUnlinkFails
    \/ Except
    \/ FinallyRmtree \/ FinallyRmtreeFails \/ FinallyRemove \/ FinallyRemoveFails

MainSpec == MainInit /\ [][MainNext]_vars

(***************************************************************************)
(* clean_css_content on its own, on style sheets written as sequences of   *)
(* declarations.                                                           *)
(***************************************************************************)
\* the most declarations a style sheet holds
MaxDecls == 2

\* a declaration: its property name, its value and its text
Decl(name, colon, value) ==
    [name |-> name, value |-> value, text |-> name \o colon \o value \o ";"]

Declarations ==
    { Decl("color", ":", "red"),
      Decl("background-color", ": ", "red"),
      Decl("max-height", ":", "1px"),
      Decl("margin", ":", "0"),
      Decl("display", ":", "block"),
      Decl("display", ": ", "none"),
      Decl("FONT-SIZE", " : ", "1em"),
      Decl("line-height", ":", "1.5") }

\* the text of a style sheet
RECURSIVE Join(_)
Join(decls) == IF decls = <<>> THEN "" ELSE Head(decls).text \o Join(Tail(decls))

CleanInputs == UNION {[1..n -> Declarations] : n \in 1..MaxDecls}

CleanInit ==
    /\ css_decls \in CleanInputs
    /\ css_content = Join(css_decls)
    /\ cleaned_css = <<>>
    /\ source = Broken(<<>>)
    /\ linesep = "\n"
    /\ NotCalled
    /\ NoMain

\* return CSS_REMOVE_PATTERN.sub('', css_content)
CleanCss ==
    /\ cleaned_css = <<>>
    /\ css_content # ""
    /\ cleaned_css' = <<clean_css_content(css_content)>>
    /\ UNCHANGED <<disk, locals, linesep, pc, result, run, faults, hist, main_vars,
                   css_decls, css_content>>

CleanNext == CleanCss

CleanSpec == CleanInit /\ [][CleanNext]_vars

(***************************************************************************)
(* What the properties read.                                               *)
(***************************************************************************)
\* the regular-file entries of the container the call began with
InputFiles == SelectSeq(hist.orig.entries, LAMBDA e : ~e.isdir)

\* the text the walk reads from an entry, and what the cleaning makes of it
TextOf(e) == decode(e.data)
CleanedOf(e) == clean_css_content(decode(e.data))

Matched(e) == IsCss(Basename(e.name))

\* the call has returned
Returned == pc = "done"

\* the call moved the temporary output onto the source and returned success
Committed == run >= 1 /\ hist.moved = "done"

(***************************************************************************)
(* C1.  The source file is written by no step other than the move: in      *)
(* every state of a call before the move is attempted, and when a call     *)
(* that got past extraction returns failure, the source holds the bytes    *)
(* it held when the call began.                                            *)
(***************************************************************************)
C1_SourceUntouchedBeforeMove ==
    (run >= 1 /\ hist.moved = "no") => source = hist.orig

C1_SourceUntouchedUnlessCommitted ==
    /\ C1_SourceUntouchedBeforeMove
    /\ (Returned /\ result = "False") => source = hist.orig

NothingToClean ==
    \A k \in 1..Len(hist.extracted) :
        Matched(hist.extracted[k]) => CleanedOf(hist.extracted[k]) = TextOf(hist.extracted[k])

C3_NoOpIsSuccess ==
    (run >= 1 /\ hist.walked /\ NothingToClean) =>
        /\ result = "True"
        /\ pc \in {"finally", "finally_remove", "done"}
        /\ ~hist.tmp_created /\ ~tmp.exists /\ ~temp_output_epub_path
        /\ ~hist.packed /\ hist.moved = "no"
        /\ source = hist.orig

\* a call on a container whose only style sheet is clean (and holds a byte
\* that is not UTF-8) has returned
C3_Witness ==
    /\ Returned /\ hist.walked /\ NothingToClean
    /\ \E k \in 1..Len(hist.extracted) :
          Matched(hist.extracted[k]) /\ hist.extracted[k].data # TextOf(hist.extracted[k])

(***************************************************************************)
(* C4.  When the input container has a root entry mimetype and the call    *)
(* commits, the output's first entry is mimetype, stored, and every other  *)
(* entry comes after it, deflated.                                         *)
(***************************************************************************)
HasMimetype == \E k \in 1..Len(InputFiles) : InputFiles[k].name = "mimetype"

C4_MimetypeFirstStored ==
    (Committed /\ HasMimetype) =>
        /\ source.valid
        /\ Len(source.entries) >= 1
        /\ source.entries[1].name = "mimetype"
        /\ source.entries[1].compress = "stored"
        /\ \A k \in 2..Len(source.entries) :
              /\ source.entries[k].name # "mimetype"
              /\ source.entries[k].compress = "deflated"

\* committed, from an input whose mimetype was neither first nor stored, and
\* that holds an entry that was stored
C4_Witness ==
    /\ Committed /\ HasMimetype
    /\ hist.orig.entries[1].name # "mimetype"
    /\ \E k \in 1..Len(hist.orig.entries) :
          hist.orig.entries[k].name = "mimetype" /\ hist.orig.entries[k].compress = "deflated"
    /\ \E k \in 1..Len(hist.orig.entries) :
          hist.orig.entries[k].name # "mimetype" /\ hist.orig.entries[k].compress = "stored"

(***************************************************************************)
(* C5.  After a commit the output's set of entry paths is the input's,     *)
(* and each path is written once (stated for the calls in which no fault   *)
(* was injected).                                                          *)
(***************************************************************************)
C5_EntryPathsPreserved ==
    (Committed /\ faults = 0) =>
        /\ Names(source.entries) = Names(hist.orig.entries)
        /\ \A j, k \in 1..Len(source.entries) :
              source.entries[j].name = source.entries[k].name => j = k

(***************************************************************************)
(* C6.  After a commit every entry whose name does not match holds its     *)
(* input bytes, and every entry whose name matches holds the cleaning of   *)
(* its input text.                                                         *)
(***************************************************************************)
OutputOf(e) == DataOf(source.entries, e.name)

C6_EveryMatchedEntryCleaned ==
    Committed =>
        \A k \in 1..Len(InputFiles) :
            LET e == InputFiles[k]
            IN IF Matched(e) THEN decode(OutputOf(e)) = CleanedOf(e)
                             ELSE OutputOf(e) = e.data

\* C6 as amended: after a commit every entry whose name does not match holds
\* its input bytes; a matched entry that was read and rewritten holds the
\* encoding of the cleaning of its text; a matched entry whose read raised, or
\* whose text the cleaning leaves as it is, holds its input bytes; a matched
\* entry whose write raised holds its input bytes or a cut-off write.
C6_EntriesCleanedUnlessFailed ==
    Committed =>
        \A k \in 1..Len(InputFiles) :
            LET e == InputFiles[k]
                new == encode(CleanedOf(e), linesep)
            IN CASE ~Matched(e) -> OutputOf(e) = e.data
                 [] e.name \in hist.read_failed -> OutputOf(e) = e.data
                 [] e.name \in hist.write_failed -> OutputOf(e) \in FailedWrites(e.data, new)
                 [] CleanedOf(e) = TextOf(e) -> OutputOf(e) = e.data
                 [] OTHER -> e.name \in hist.written /\ OutputOf(e) = new

\* committed although the read of one matched entry raised, with an entry
\* that does not match and one that was rewritten
C6_Witness ==
    /\ Committed
    /\ hist.read_failed # {} /\ hist.written # {}
    /\ \E k \in 1..Len(InputFiles) : ~Matched(InputFiles[k])

(***************************************************************************)
(* C7.  When the cleaning is idempotent on the texts of the container's    *)
(* matched entries, a second call on the same path leaves the container    *)
(* as the first call left it.                                              *)
(***************************************************************************)
PrevFiles == SelectSeq(hist.prev.entries, LAMBDA e : ~e.isdir)

IdempotentOnPrev ==
    \A k \in 1..Len(PrevFiles) :
        Matched(PrevFiles[k]) =>
            clean_css_content(CleanedOf(PrevFiles[k])) = CleanedOf(PrevFiles[k])

NotAnArchiveAborts ==
    /\ scratch_files = <<>> /\ scratch_dirs = {}
    /\ pc \in {"mkdtemp", "extract", "except", "finally", "finally_remove", "done"}
    /\ ~hist.walked /\ ~hist.packed /\ hist.moved = "no"
    /\ ~hist.tmp_created /\ ~tmp.exists /\ ~temp_output_epub_path
    /\ source = hist.orig
    /\ Returned => result = "False"

EntryFailed == hist.read_failed \cup hist.write_failed

C9_WalkGoesOn ==
    (run >= 1 /\ hist.walked) =>
        \A k \in 1..Len(hist.extracted) :
            LET e == hist.extracted[k]
            IN Matched(e) =>
                 /\ e.name \in hist.reads
                 /\ (e.name \notin EntryFailed /\ CleanedOf(e) # TextOf(e)) =>
                       /\ e.name \in hist.written
                       /\ scratch_exists =>
                             DataOf(scratch_files, e.name) = encode(CleanedOf(e), linesep)

\* the walk ended after a matched file failed and a later one was rewritten
C9_Witness ==
    /\ hist.walked /\ scratch_exists
    /\ \E i, j \in 1..Len(Walk(hist.extracted)) :
          /\ i < j
          /\ Walk(hist.extracted)[i].name \in EntryFailed
          /\ Walk(hist.extracted)[j].name \in hist.written

(***************************************************************************)
(* C10.  When a read or a write of a matched file raised during the walk,  *)
(* the call does not return the True it returns when none did.             *)
(***************************************************************************)
C10_EntryFailureReported ==
    (Returned /\ EntryFailed # {}) => result # "True"

(***************************************************************************)
(* C11.  When step 5 raised, the temporary output is gone from its path    *)
(* once the call has returned, the call returns False, the move is never   *)
(* called, and the source holds the bytes it held when the call began.     *)
(***************************************************************************)
PackFailureAborts ==
    /\ hist.moved = "no"
    /\ pc \notin {"commit", "commit_except"}
    /\ ~hist.packed
    /\ source = hist.orig
    /\ Returned => result = "False"

MoveFailed == run >= 1 /\ hist.moved = "called"

C12_MoveFailureLeavesSource ==
    (Returned /\ MoveFailed) =>
        /\ result = "False"
        /\ source = hist.orig
        /\ ~tmp.exists

(***************************************************************************)
(* C13.  An exception that reaches the outer except block (from mkdtemp,   *)
(* from the walk, from os.remove inside the handler of step 5 or 6) does   *)
(* not leave the call: the call returns False, and when it has returned    *)
(* shutil.rmtree and os.remove have run (the scratch directory and the     *)
(* temporary output are gone, or their removal raised OSError).            *)
(***************************************************************************)
C13_UnexpectedIsFailure ==
    (run >= 1 /\ hist.caught) =>
        /\ pc \in {"finally", "finally_remove", "done"}
        /\ result = "False"
        /\ Returned =>
              /\ scratch_exists => hist.rmtree_failed
              /\ tmp.exists => hist.remove_failed

\* os.remove raised inside the handler of a failed step 5 or 6, the outer
\* handler took the exception, and the call returned False with the scratch
\* directory and the temporary output removed
C13_Witness ==
    /\ Returned /\ hist.caught /\ hist.tmp_created
    /\ result = "False" /\ temp_dir /\ ~scratch_exists /\ ~tmp.exists

(***************************************************************************)
(* C14.  The steps run in the order extract, walk, pack, move: the walk    *)
(* runs on what extractall left; the temporary output gets its name and    *)
(* is created only when the walk has ended with a matched file rewritten;  *)
(* the move is called only on a temporary output that step 5 wrote and     *)
(* closed without an exception; and once the value to return is set, only  *)
(* the cleanup runs: the source, the scratch files and the temporary       *)
(* output are written by no later step of the call.                        *)
(***************************************************************************)
StepsInOrder ==
    run >= 1 =>
        /\ pc \in {"walk", "pack", "pack_except", "commit", "commit_except"} =>
              hist.extracted # <<>>
        /\ hist.walked => hist.extracted # <<>>
        /\ (pc \in {"pack", "pack_except"} \/ temp_output_epub_path \/ hist.tmp_created
              \/ tmp.exists \/ hist.pack_failed) =>
              hist.walked /\ hist.written # {}
        /\ hist.packed => hist.tmp_created /\ ~hist.pack_failed
        /\ pc = "commit" => hist.packed /\ tmp.exists /\ tmp.file.valid
        /\ hist.moved # "no" => hist.packed
        /\ result # "none" => pc \in {"finally", "finally_remove", "done"}

OnlyCleanupAfterOutcome ==
    (result # "none" /\ run' = run) =>
        /\ result' = result
        /\ source' = source
        /\ tmp' \in {tmp, NoFile}
        /\ scratch_files' \in {scratch_files, <<>>}
        /\ hist'.extracted = hist.extracted /\ hist'.walked = hist.walked
        /\ hist'.packed = hist.packed /\ hist'.moved = hist.moved
        /\ hist'.written = hist.written /\ hist'.reads = hist.reads

C14_StepsOnlyInOrder == [](StepsInOrder) /\ [][OnlyCleanupAfterOutcome]_vars

\* the call went through all four steps and returned, although the write of
\* one matched file had raised in the walk
C14_Witness ==
    /\ Returned /\ result = "True"
    /\ hist.walked /\ hist.packed /\ hist.moved = "done"
    /\ hist.write_failed # {} /\ hist.written # {}

(***************************************************************************)
(* C15.  A matched file whose cleaned text equals the text read from it    *)
(* is never opened for writing: its bytes in the scratch tree, and in the  *)
(* output when the call commits, are the bytes extractall wrote, the       *)
(* bytes the decoding dropped included.                                    *)
(***************************************************************************)
C15_UnchangedEntriesNotRewritten ==
    run >= 1 =>
        \A k \in 1..Len(hist.extracted) :
            LET e == hist.extracted[k]
            IN (Matched(e) /\ CleanedOf(e) = TextOf(e)) =>
                 /\ e.name \notin hist.opened_w
                 /\ scratch_files # <<>> => DataOf(scratch_files, e.name) = e.data
                 /\ Committed => OutputOf(e) = e.data

\* the call committed a container in which one matched entry was rewritten
\* and another, whose text the cleaning leaves as it is, holds a byte that
\* the decoding drops
C15_Witness ==
    /\ Committed /\ Returned
    /\ \E k \in 1..Len(hist.extracted) :
          LET e == hist.extracted[k]
          IN /\ Matched(e) /\ CleanedOf(e) = TextOf(e)
             /\ e.data # TextOf(e)
             /\ OutputOf(e) = e.data

(***************************************************************************)
(* C17.  After a commit every matched entry holds its input content or     *)
(* the whole cleaning of it, never a cut-off or empty write: an entry      *)
(* whose write raised holds its input bytes.                               *)
(***************************************************************************)
C17_NoPartialEntryCommitted ==
    Committed =>
        \A k \in 1..Len(InputFiles) :
            LET e == InputFiles[k]
            IN Matched(e) =>
                 /\ OutputOf(e) \in {e.data, encode(CleanedOf(e), linesep)}
                 /\ e.name \in hist.write_failed => OutputOf(e) = e.data

(***************************************************************************)
(* C16.  In main, calls of process_epub_inplace do not overlap: a call     *)
(* begins only when every earlier one has returned.  When main has gone    *)
(* through the listing, every item that is not the script, is a regular    *)
(* file and is named .epub was called exactly once, whatever the earlier   *)
(* calls returned, no other item was called, and processed_count plus      *)
(* error_count is the number of calls made.                                *)
(***************************************************************************)
\* the calls that have begun and not returned
InFlight == batch.started - batch.finished

\* main went through the whole listing
MainDone == main_pc = "exit" /\ Len(all_items) = Len(directory) /\ item_i > Len(all_items)

C16_BatchIsSequentialAndComplete ==
    /\ InFlight \in {0, 1}
    /\ InFlight = 1 <=> main_pc = "call"
    /\ main_pc # "call" => pc = "idle"
    /\ processed_count + error_count = batch.finished
    /\ \A k \in 1..Len(batch.attempts) : batch.attempts[k] <= 1
    /\ MainDone =>
          /\ \A k \in 1..Len(all_items) :
                batch.attempts[k] = IF Discovered(k) THEN 1 ELSE 0
          /\ processed_count + error_count =
                Cardinality({k \in 1..Len(all_items) : Discovered(k)})
          /\ found_epub <=> \E k \in 1..Len(all_items) : Discovered(k)

\* main went through a listing in which a call that returned False was
\* followed by a call that returned True, with items it does not call
C16_Witness ==
    /\ MainDone
    /\ batch.results = <<"False", "True">>
    /\ error_count = 1 /\ processed_count = 1
    /\ Len(all_items) = 3

(***************************************************************************)
(* C18.  clean_css_content removes the declarations whose property name    *)
(* is one of text-indent, line-height, font-size, height, font-family,     *)
(* color (whatever the case), and display: block, and nothing else: its    *)
(* result is the text of the other declarations, each whole, in order.     *)
(***************************************************************************)
Listed(d) ==
    \/ \E n \in 1..Len(CSS_REMOVE_NAMES) : Lower(d.name) = CSS_REMOVE_NAMES[n]
    \/ Lower(d.name) = "display" /\ Lower(d.value) = "block"

C18_OnlyListedDeclarationsRemoved ==
    cleaned_css # <<>> =>
        cleaned_css[1] = Join(SelectSeq(css_decls, LAMBDA d : ~Listed(d)))

=============================================================================
